---- MODULE Spec2Model ----
(***************************************************************************)
(* Fleet-capture and detection pipeline of wvc_capture_detection:          *)
(* the Celery tasks of tasks.py, the helpers they call in                  *)
(* capture/capture_utils.py, detection/detection_utils.py and              *)
(* models/db_operations.py, and the Celery execution layer they run on     *)
(* (Task.retry, chord with the redis result backend of celery_app.py).     *)
(***************************************************************************)
EXTENDS Integers, Sequences, FiniteSets, TLC

\* ---------------------------------------------------------------- bounds
NumCameras == 2
MaxLen == 4
NumPhotos == 1
MaxDetRuns == 2
MaxRows == 3
MaxSteps == 3
MaxBoxes == 2
QueueCap == 2

\* ------------------------------------------------------ program constants
\* @app.task(bind=True, max_retries=2, queue='capture')
CaptureMaxRetries == 2
\* @app.task(bind=True, max_retries=2, queue='detection')
DetectMaxRetries == 2
\* get_undetected_photos(limit=100)
DetectLimit == 100
\* confidences are held in hundredths: 0.80, 0.5 and conf=0.60
MIN_CONFIDENCE == 80
YOLO_SYSTEM_CONFIDENCE_high == MIN_CONFIDENCE + 10
YOLO_SYSTEM_CONFIDENCE == 50
PredictConf_high == MIN_CONFIDENCE + 1
PredictConf == 60

CameraIds == 1..NumCameras

\* an absent dictionary / row / return value
Null == [null |-> TRUE]

\* the four statuses a capture outcome dictionary can carry
CaptureStatuses == {"success", "not_found", "failed_after_retries", "error"}

\* points at which capture() can fail; "none" is the fault-free run
CaptureFaults == {"none", "frame", "encode", "upload", "redis", "photo_create", "camera_save"}

\* ------------------------------------------------------------------ state
VARIABLES
    activeCameras,  \* ids of the Camera rows whose State has is_active
    schedIn,        \* what the schedule_camera_captures run met: query and submission raised or not
    schedResult,    \* result dictionary of schedule_camera_captures, Null before it ran
    fanout,         \* camera ids handed to the chord header
    capQueue,       \* capture_single_camera messages on queue 'capture', waiting or being run
    capLast,        \* camera -> the latest finished attempt of its CaptureUnit
    chordResults,   \* return values stored by on_chord_part_return
    chordFired,     \* chord callback already submitted
    sumQueue,       \* summarize_capture_results messages waiting
    report,         \* return value of summarize_capture_results, Null before it ran
    lastConn,       \* camera -> Camera.last_connection_status
    photos,         \* Photo table, row id = position
    objectRows,     \* DetectedObject table: photo id -> names of its rows, oldest first
    detRuns,        \* number of schedule_photo_detection runs so far
    detSched,       \* result dictionary of the latest schedule_photo_detection run
    detCalls,       \* what that run met: the query raised or not, and its apply_async calls in order
    detWrites,      \* photo id -> number of UPDATE statements of update_photo_detection that hit the row
    detQueue,       \* detect_single_photo messages waiting on queue 'detection'
    detRunning,     \* detect_single_photo executions past update_photo_detection
    detLast,        \* the latest finished attempt of a DetectionUnit
    aggIn,          \* argument list of a direct summarize_capture_results call
    aggOut,         \* its return value
    _model,         \* global _model of a detection worker process: 0 for None, else the number of the load that made the handle
    _device,        \* global _device of that process, "" for None
    modelLoads,     \* number of YOLO(YOLO_MODEL_PATH) constructions completed in that process
    tmpFiles,       \* temporary files on the disk of that process
    stepCount,      \* number of detect_objects calls made by that process
    stepLast,       \* the latest finished detect_objects call
    clsIn,          \* result.boxes handed to the loop of detect_objects
    clsOut,         \* what the loop made of them
    sysConf,        \* YOLO_SYSTEM_CONFIDENCE as the process read it from its environment
    bucket,         \* keys of the objects in the S3 bucket, as far as direct helper calls made them
    s3Last,         \* the latest direct call of upload_to_s3, download_from_s3 or delete_from_s3
    broker,         \* queue name -> the messages waiting on that queue, oldest first
    pools,          \* names of the queues whose worker pool is taking messages
    cropExc         \* index of a raw detection -> what storing its crop meets; "none" where absent

capVars == <<activeCameras, schedIn, schedResult, fanout, capQueue, capLast, chordResults, chordFired,
             sumQueue, report, lastConn, photos>>
detVars == <<objectRows, detRuns, detSched, detCalls, detWrites, detQueue, detRunning, detLast>>
aggVars == <<aggIn, aggOut>>
wrkVars == <<_model, _device, modelLoads, tmpFiles, stepCount, stepLast, clsIn, clsOut, sysConf,
            bucket, s3Last, broker, pools, cropExc>>
vars == <<capVars, detVars, aggVars, wrkVars>>

\* ------------------------------------------------------------- helpers
RECURSIVE CountStatus(_, _)
\* sum(1 for r in results if r.get('status') == s)
CountStatus(results, s) ==
    IF results = <<>> THEN 0
    ELSE (IF Head(results).status = s THEN 1 ELSE 0) + CountStatus(Tail(results), s)

\* ------------------------------------------------------ CaptureAggregator
summarize_capture_results_nf(results) ==
    LET total == Len(results)
        success == CountStatus(results, "success")
    IN  [total |-> total,
         success |-> success,
         failed |-> total - success,
         not_found |-> CountStatus(results, "not_found") + CountStatus(results, "error"),
         max_retries |-> CountStatus(results, "failed_after_retries"),
         errors |-> CountStatus(results, "error")]

summarize_capture_results_key(results) ==
    LET total == Len(results)
        success == CountStatus(results, "ok")
    IN  [total |-> total,
         success |-> success,
         failed |-> total - success,
         not_found |-> CountStatus(results, "not_found"),
         max_retries |-> CountStatus(results, "failed_after_retries"),
         errors |-> CountStatus(results, "error")]

summarize_capture_results(results) ==
    LET total == Len(results)
        success == CountStatus(results, "success")
    IN  [total |-> total,
         success |-> success,
         failed |-> total - success,
         not_found |-> CountStatus(results, "not_found"),
         max_retries |-> CountStatus(results, "failed_after_retries"),
         errors |-> CountStatus(results, "error")]

\* ------------------------------------------------------------ CaptureUnit
\* capture(camera): what one run does under a given fault.
\*   result: "ok" ({'success': True}), "failed" ({'success': False}), "none" (None)
\*   conn:   value written to last_connection_status, "unchanged" when not written
\*   photo:  whether Photo.create inserted a row
capture(fault) ==
    CASE fault = "none"         -> [result |-> "ok",     conn |-> "true",      photo |-> TRUE]
      [] fault = "photo_create" -> [result |-> "ok",     conn |-> "true",      photo |-> FALSE]
      [] fault = "frame"        -> [result |-> "failed", conn |-> "false",     photo |-> FALSE]
      [] fault = "encode"       -> [result |-> "failed", conn |-> "false",     photo |-> FALSE]
      [] fault = "upload"       -> [result |-> "failed", conn |-> "false",     photo |-> FALSE]
      [] fault = "redis"        -> [result |-> "none",   conn |-> "unchanged", photo |-> FALSE]
      [] fault = "camera_save"  -> [result |-> "none",   conn |-> "unchanged", photo |-> TRUE]

\* Task.retry: with max_retries set, the call raises MaxRetriesExceededError
\* when request.retries + 1 exceeds it, and otherwise re-submits the task.
RetryExhausted_off(retries, max) == retries > max

RetryExhausted(retries, max) == retries + 1 > max

\* what one attempt of a task leaves behind
Returned(status, error) == [status |-> status, error |-> error, retried |-> FALSE, raised |-> FALSE]
Resubmitted(status, error) == [status |-> status, error |-> error, retried |-> TRUE, raised |-> FALSE]
Raised(error) == [status |-> "none", error |-> error, retried |-> FALSE, raised |-> TRUE]

\* One attempt of capture_single_camera.
\*   found: get_camera_by_id returned a camera
\*   res:   result class of capture(camera)
\*   exc:   an unexpected exception is raised inside the try block
\* Gives the returned dictionary, whether Task.retry re-submitted the task,
\* and whether an exception left the task body.
CaptureAttempt_nfretry(retries, found, res, exc) ==
    IF ~found /\ ~RetryExhausted(retries, CaptureMaxRetries)
    THEN Resubmitted("error", "Retry in 5s")
    ELSE IF ~found
    THEN Returned("not_found", "")
    ELSE IF exc
    THEN Returned("error", "exception")
    ELSE IF res = "ok"
    THEN Returned("success", "")
    ELSE IF RetryExhausted(retries, CaptureMaxRetries)
    THEN Returned("failed_after_retries", "")
    ELSE Resubmitted("error", "Retry in 5s")

CaptureAttempt_raise(retries, found, res, exc) ==
    IF ~found
    THEN Returned("not_found", "")
    ELSE IF exc
    THEN Raised("exception")
    ELSE IF res = "ok"
    THEN Returned("success", "")
    ELSE IF RetryExhausted(retries, CaptureMaxRetries)
    THEN Returned("failed_after_retries", "")
    ELSE Resubmitted("error", "Retry in 5s")

CaptureAttempt(retries, found, res, exc) ==
    IF ~found
    THEN Returned("not_found", "")
    ELSE IF exc
    THEN Returned("error", "exception")
    ELSE IF res = "ok"
    THEN Returned("success", "")
    ELSE IF RetryExhausted(retries, CaptureMaxRetries)
    THEN Returned("failed_after_retries", "")
    ELSE \* Task.retry re-submits the task and raises Retry, which the
         \* trailing "except Exception" turns into an 'error' dictionary
         Resubmitted("error", "Retry in 5s")

ZeroCounts ==
    [car_above |-> 0, car_below |-> 0, truck_above |-> 0, truck_below |-> 0,
     person_above |-> 0, person_below |-> 0, deer_above |-> 0, deer_below |-> 0]

\* Photo.create(..., file=s3_key, has_detected_objects=False, detected_at=None)
\*   created_at: default datetime.now, held as a rank (1 = oldest)
\*   file:       <<key>>, and <<>> for a NULL column
NewPhoto(created_at, s3_key) ==
    [created_at |-> created_at, file |-> <<s3_key>>,
     detected |-> FALSE, has_detected_objects |-> FALSE, counts |-> ZeroCounts]

\* --------------------------------------------------------------- Init
InitCapture ==
    /\ activeCameras \in SUBSET CameraIds
    /\ schedIn = Null
    /\ schedResult = Null
    /\ fanout = {}
    /\ capQueue = {}
    /\ capLast = [c \in CameraIds |-> Null]
    /\ chordResults = {}
    /\ chordFired = FALSE
    /\ sumQueue = {}
    /\ report = Null
    /\ lastConn = [c \in CameraIds |-> FALSE]
    /\ photos = <<>>

InitDetection ==
    /\ objectRows = [p \in DOMAIN photos |-> <<>>]
    /\ detRuns = 0
    /\ detSched = Null
    /\ detCalls = Null
    /\ detWrites = [p \in DOMAIN photos |-> 0]
    /\ detQueue = {}
    /\ detRunning = {}
    /\ detLast = Null

\* a fresh worker process: _model = None, _device = None
InitWorker ==
    /\ _model = 0
    /\ _device = ""
    /\ modelLoads = 0
    /\ tmpFiles = {}
    /\ stepCount = 0
    /\ stepLast = Null
    /\ sysConf = YOLO_SYSTEM_CONFIDENCE
    /\ bucket = {}
    /\ s3Last = Null
    /\ broker = [capture |-> <<>>, detection |-> <<>>]
    /\ pools = {"capture", "detection"}
    /\ cropExc = <<>>

Init ==
    /\ InitCapture
    /\ InitDetection
    /\ InitWorker
    /\ clsIn = <<>>
    /\ clsOut = Null
    /\ aggIn = <<>>
    /\ aggOut = Null

\* ------------------------------------------------------- CaptureScheduler
\* get_active_cameras_for_capture(): the ids of the cameras in active states,
\* [] when the query raises
get_active_cameras_for_capture_all(active, ok) == IF ok THEN CameraIds ELSE {}

get_active_cameras_for_capture(active, ok) == IF ok THEN active ELSE {}

\* the header of the chord: capture_single_camera.s(camera_id) for every id
ChordHeader_skip(camera_ids) ==
    {[camera_id |-> c, retries |-> 0] : c \in camera_ids \ {CHOOSE x \in camera_ids : TRUE}}

ChordHeader(camera_ids) == {[camera_id |-> c, retries |-> 0] : c \in camera_ids}

\* one run of the scheduler and the batch it starts
\*   queryOk:  the query of get_active_cameras_for_capture did not raise
\*   submitOk: chord(...).apply_async() did not raise (a raise is taken before
\*             any message is published)
schedule_camera_captures ==
    /\ schedResult = Null
    /\ \E queryOk \in BOOLEAN, submitOk \in BOOLEAN :
        LET camera_ids == get_active_cameras_for_capture(activeCameras, queryOk) IN
        /\ schedIn' = [query_ok |-> queryOk, submit_ok |-> submitOk]
        /\ IF camera_ids = {}
           THEN /\ schedResult' = [scheduled |-> 0, error |-> "No active cameras"]
                /\ UNCHANGED <<fanout, capQueue>>
           ELSE IF ~submitOk
           THEN /\ schedResult' = [scheduled |-> 0, error |-> "exception"]
                /\ UNCHANGED <<fanout, capQueue>>
           ELSE /\ fanout' = {m.camera_id : m \in ChordHeader(camera_ids)}
                /\ capQueue' = ChordHeader(camera_ids)
                /\ schedResult' = [scheduled |-> Cardinality(camera_ids), error |-> ""]
    /\ UNCHANGED <<activeCameras, capLast, chordResults, chordFired, sumQueue, report,
                   lastConn, photos, detVars, aggVars, wrkVars>>

\* redis backend, on_chord_part_return: every returned value is added to the
\* sorted set of the chord (scored by the position of the task in the header,
\* equal members stored once), and the callback is submitted when the set
\* holds as many members as the header has tasks
ChordComplete(results, size) == Cardinality(results) = size

StatusRank(st) ==
    CASE st = "error" -> 1
      [] st = "failed_after_retries" -> 2
      [] st = "not_found" -> 3
      [] st = "success" -> 4

\* order of zrange: by score, members of equal score by their encoding
ChordBefore(x, y) ==
    \/ x.camera_id < y.camera_id
    \/ /\ x.camera_id = y.camera_id
       /\ \/ StatusRank(x.status) < StatusRank(y.status)
          \/ x.status = y.status /\ x.error = "Retry in 5s" /\ y.error # "Retry in 5s"

RECURSIVE ChordList(_)
ChordList(results) ==
    IF results = {} THEN <<>>
    ELSE LET x == CHOOSE x \in results : \A y \in results \ {x} : ChordBefore(x, y)
         IN  <<x>> \o ChordList(results \ {x})

\* a worker of queue 'capture' runs one attempt: body of capture_single_camera,
\* the retry it submits, and the chord bookkeeping of the result backend for
\* its return value
capture_single_camera(m) ==
    /\ m \in capQueue
    /\ \E found \in BOOLEAN, fault \in CaptureFaults, exc \in BOOLEAN :
        LET c == m.camera_id
            ran == found /\ ~exc
            cap == capture(fault)
            att == CaptureAttempt(m.retries, found, cap.result, exc)
            outcome == [camera_id |-> c, status |-> att.status, error |-> att.error]
            rs == chordResults \cup {outcome}
        IN
        /\ lastConn' = IF ran /\ cap.conn # "unchanged"
                       THEN [lastConn EXCEPT ![c] = (cap.conn = "true")]
                       ELSE lastConn
        /\ photos' = IF ran /\ cap.photo
                     THEN Append(photos, NewPhoto(Len(photos) + 1, Len(photos) + 1))
                     ELSE photos
        /\ capQueue' = IF att.retried
                       THEN (capQueue \ {m}) \cup {[m EXCEPT !.retries = @ + 1]}
                       ELSE capQueue \ {m}
        /\ capLast' = [capLast EXCEPT ![c] =
                        [retries |-> m.retries,
                         cap |-> IF ran THEN cap.result ELSE IF found THEN "raised" ELSE "skipped",
                         photo |-> ran /\ cap.photo,
                         status |-> att.status, error |-> att.error,
                         retried |-> att.retried, raised |-> att.raised]]
        /\ IF att.raised \/ chordFired
           THEN UNCHANGED <<chordResults, chordFired, sumQueue>>
           ELSE /\ chordResults' = rs
                /\ IF ChordComplete(rs, Cardinality(fanout))
                   THEN /\ chordFired' = TRUE
                        /\ sumQueue' = sumQueue \cup {[results |-> ChordList(rs)]}
                   ELSE UNCHANGED <<chordFired, sumQueue>>
    /\ UNCHANGED <<activeCameras, schedIn, schedResult, fanout, report, detVars, aggVars, wrkVars>>

\* the chord callback runs
SummarizeRun(m) ==
    /\ m \in sumQueue
    /\ sumQueue' = sumQueue \ {m}
    /\ report' = summarize_capture_results(m.results)
    /\ UNCHANGED <<activeCameras, schedIn, schedResult, fanout, capQueue, capLast,
                   chordResults, chordFired, lastConn, photos, detVars, aggVars, wrkVars>>

Next ==
    \/ schedule_camera_captures
    \/ \E m \in capQueue : capture_single_camera(m)
    \/ \E m \in sumQueue : SummarizeRun(m)

Spec == Init /\ [][Next]_vars

\* ============================================================ detection
Min(a, b) == IF a < b THEN a ELSE b

\* CLASS_CONFIG: raw class -> canonical class; every entry has
\* min_confidence MIN_CONFIDENCE and save_image True
ConfiguredClasses ==
    {"car", "truck", "bus", "person", "dog", "cat", "horse", "sheep", "cow",
     "elephant", "bear", "zebra", "giraffe"}

CLASS_CONFIG_person ==
    [cls \in ConfiguredClasses |->
        [map_to |-> CASE cls = "car" -> "car"
                      [] cls \in {"truck", "bus"} -> "truck"
                      [] OTHER -> "person",
         min_confidence |-> MIN_CONFIDENCE,
         save_image |-> TRUE]]

CLASS_CONFIG ==
    [cls \in ConfiguredClasses |->
        [map_to |-> CASE cls = "car" -> "car"
                      [] cls \in {"truck", "bus"} -> "truck"
                      [] cls = "person" -> "person"
                      [] OTHER -> "deer",
         min_confidence |-> MIN_CONFIDENCE,
         save_image |-> TRUE]]

\* counts[f'{name}_above'] += 1  /  counts[f'{name}_below'] += 1
Bump_above(counts, name, above) ==
    CASE name = "car"    -> [counts EXCEPT !.car_above = @ + 1]
      [] name = "truck"  -> [counts EXCEPT !.truck_above = @ + 1]
      [] name = "person" -> [counts EXCEPT !.person_above = @ + 1]
      [] name = "deer"   -> [counts EXCEPT !.deer_above = @ + 1]

Bump(counts, name, above) ==
    CASE name = "car" /\ above     -> [counts EXCEPT !.car_above = @ + 1]
      [] name = "car" /\ ~above    -> [counts EXCEPT !.car_below = @ + 1]
      [] name = "truck" /\ above   -> [counts EXCEPT !.truck_above = @ + 1]
      [] name = "truck" /\ ~above  -> [counts EXCEPT !.truck_below = @ + 1]
      [] name = "person" /\ above  -> [counts EXCEPT !.person_above = @ + 1]
      [] name = "person" /\ ~above -> [counts EXCEPT !.person_below = @ + 1]
      [] name = "deer" /\ above    -> [counts EXCEPT !.deer_above = @ + 1]
      [] name = "deer" /\ ~above   -> [counts EXCEPT !.deer_below = @ + 1]

\* what storing a crop can meet: nothing, upload_to_s3 answering (False, ""),
\* or an exception of the cropping, the encoding or the upload
CropOutcomes == {"none", "failed", "raised"}

\* the crop of raw detection i is in the bucket after the try block
CropStored(crops, i) == i \notin DOMAIN crops \/ crops[i] = "none"

object_s3_key_kept(stored, key) == key

\* object_s3_key when the dictionary is appended: the key the crop was stored
\* under, None where it was not stored
object_s3_key(stored, key) == IF stored THEN key ELSE <<>>

\* the loop of detect_objects over result.boxes, from box i on
RECURSIVE ClassifyFrom(_, _, _, _, _, _)
ClassifyFrom(photo_id, boxes, i, acc, system_confidence, crops) ==
    IF i > Len(boxes) THEN acc
    ELSE LET box == boxes[i] IN
         IF box.cls \notin DOMAIN CLASS_CONFIG
         THEN ClassifyFrom(photo_id, boxes, i + 1, acc, system_confidence, crops)
         ELSE LET class_config == CLASS_CONFIG[box.cls] IN
              IF box.conf < class_config.min_confidence
              THEN ClassifyFrom(photo_id, boxes, i + 1, acc, system_confidence, crops)
              ELSE LET mapped == class_config.map_to
                       is_above == box.conf >= system_confidence
                       stored == class_config.save_image /\ CropStored(crops, i)
                       obj == [name |-> mapped, original_name |-> box.cls,
                               confidence |-> box.conf,
                               s3_key |-> object_s3_key(stored, <<"objects", mapped, photo_id, i>>),
                               is_above_system_confidence |-> is_above]
                   IN  ClassifyFrom(photo_id, boxes, i + 1,
                          [counts |-> Bump(acc.counts, mapped, is_above),
                           detected_objects |-> Append(acc.detected_objects, obj),
                           classes_detected |-> acc.classes_detected \cup {mapped}],
                          system_confidence, crops)

Classify_break(photo_id, boxes) ==
    LET stops == {i \in 1..Len(boxes) : boxes[i].cls \notin DOMAIN CLASS_CONFIG}
        last == IF stops = {} THEN Len(boxes)
                ELSE (CHOOSE i \in stops : \A j \in stops : i <= j) - 1
        acc == ClassifyFrom(photo_id, SubSeq(boxes, 1, last), 1,
                   [counts |-> ZeroCounts, detected_objects |-> <<>>, classes_detected |-> {}],
                   sysConf, cropExc)
    IN  [photo_id |-> photo_id,
         counts |-> acc.counts,
         detected_objects |-> acc.detected_objects,
         has_detected_objects |-> Len(acc.detected_objects) > 0,
         total_objects_detected |-> Len(acc.detected_objects),
         total_raw_detections |-> Len(boxes),
         classes_detected |-> acc.classes_detected]

Classify_raw(photo_id, boxes) ==
    LET acc == ClassifyFrom(photo_id, boxes, 1,
                   [counts |-> ZeroCounts, detected_objects |-> <<>>, classes_detected |-> {}],
                   sysConf, cropExc)
    IN  [photo_id |-> photo_id,
         counts |-> acc.counts,
         detected_objects |-> acc.detected_objects,
         has_detected_objects |-> Len(boxes) > 0,
         total_objects_detected |-> Len(acc.detected_objects),
         total_raw_detections |-> Len(boxes),
         classes_detected |-> acc.classes_detected]

Classify(photo_id, boxes) ==
    LET acc == ClassifyFrom(photo_id, boxes, 1,
                   [counts |-> ZeroCounts, detected_objects |-> <<>>, classes_detected |-> {}],
                   sysConf, cropExc)
    IN  [photo_id |-> photo_id,
         counts |-> acc.counts,
         detected_objects |-> acc.detected_objects,
         has_detected_objects |-> Len(acc.detected_objects) > 0,
         total_objects_detected |-> Len(acc.detected_objects),
         total_raw_detections |-> Len(boxes),
         classes_detected |-> acc.classes_detected]

\* what the image stored under a key shows: every box the detector can find
ImageBoxes(s3_key) ==
    CASE s3_key = 1 -> <<[cls |-> "car", conf |-> 85], [cls |-> "person", conf |-> 40],
                           [cls |-> "dog", conf |-> 90], [cls |-> "cat", conf |-> 70]>>
      [] s3_key = 2 -> <<[cls |-> "bicycle", conf |-> 95]>>
      [] OTHER        -> <<[cls |-> "bus", conf |-> 80]>>

\* the conf argument of model.predict: of the boxes the network proposes,
\* those at or above the floor are returned
predict_boxes(proposed, conf) == SelectSeq(proposed, LAMBDA box : box.conf >= conf)

\* model.predict(local_path, conf=...): the boxes at or above the floor
predict(s3_key, conf) == predict_boxes(ImageBoxes(s3_key), conf)

\* points at which detect_objects can fail; "none" is the fault-free run
DetectFaults == {"none", "download", "model", "predict", "empty"}

\* detect_objects(photo_id, s3_key): None on every failure
detect_objects(photo_id, s3_key, fault) ==
    IF fault = "none" THEN Classify(photo_id, predict(s3_key, PredictConf)) ELSE Null

\* .order_by(Photo.created_at.asc()): the ids in rising created_at (rows of
\* equal created_at, which the database may give in any order, by id)
OldestFirst(table, ids) ==
    LET n == Cardinality(ids)
        top == CHOOSE m \in ids : \A j \in ids : j <= m
        Before(j, i) == \/ table[j].created_at < table[i].created_at
                        \/ table[j].created_at = table[i].created_at /\ j < i
        \* position of every id in the order (0 for an id that is not selected)
        rank == SubSeq([i \in 1..top |->
                          IF i \in ids THEN Cardinality({j \in ids : Before(j, i)}) + 1
                          ELSE 0], 1, top)
    IN  IF ids = {} THEN <<>>
        ELSE CHOOSE s \in {SubSeq([k \in 1..n |-> CHOOSE i \in ids : r[i] = k], 1, n) :
                              r \in {rank}} : TRUE

\* get_undetected_photos(limit): {'id', 's3_key'} of the rows with detected_at
\* NULL and file not NULL, oldest first, at most limit of them
get_undetected_photos_newest(table, limit) ==
    LET ids == {i \in DOMAIN table : ~table[i].detected /\ table[i].file # <<>>}
        sorted == OldestFirst(table, ids)
        n == Min(limit, Len(sorted))
    IN  SubSeq([k \in 1..n |-> [id |-> sorted[Len(sorted) + 1 - k],
                                s3_key |-> table[sorted[Len(sorted) + 1 - k]].file[1]]], 1, n)

get_undetected_photos_all(table, limit) ==
    LET ids == DOMAIN table
        sorted == OldestFirst(table, ids)
        n == Min(limit, Len(sorted))
    IN  SubSeq([k \in 1..n |-> [id |-> sorted[k],
                                s3_key |-> table[sorted[k]].file[1]]], 1, n)

get_undetected_photos(table, limit) ==
    LET ids == {i \in DOMAIN table : ~table[i].detected /\ table[i].file # <<>>}
    IN  CHOOSE s \in {SubSeq([k \in 1..Min(limit, Len(sorted)) |->
                                 [id |-> sorted[k], s3_key |-> table[sorted[k]].file[1]]],
                             1, Min(limit, Len(sorted))) :
                          sorted \in {OldestFirst(table, ids)}} : TRUE

SeqRange(q) == UNION {{s[i] : i \in 1..Len(s)} : s \in {q}}

\* how an attempt of detect_single_photo ends
\*   stage: "detect_failed" (detect_objects gave None), "update_failed"
\*   (update_photo_detection gave False), "done", or "exception" (an
\*   exception reached the handler of the task body, which calls Task.retry)
DetectAttempt(retries, stage) ==
    CASE stage = "detect_failed" -> Returned("error", "Detection failed")
      [] stage = "update_failed" -> Returned("error", "Database update failed")
      [] stage = "done"          -> Returned("success", "")
      [] stage = "exception"     ->
            IF RetryExhausted(retries, DetectMaxRetries)
            THEN Raised("exception")
            ELSE Resubmitted("none", "exception")

\* record of a finished attempt
\*   fault: what went wrong ("none" when nothing did)
\*   wrote: update_photo_detection had written the row in this attempt
\*   row:   the Photo row as the attempt leaves it
\*   rediscovered: the photo is in the result of a discovery query made then
Finished(t, fault, stage, wrote, table) ==
    LET att == DetectAttempt(t.retries, stage) IN
    [photo_id |-> t.photo_id, retries |-> t.retries, fault |-> fault, stage |-> stage,
     status |-> att.status, error |-> att.error,
     retried |-> att.retried, raised |-> att.raised,
     wrote |-> wrote,
     row |-> table[t.photo_id],
     rediscovered |-> \E ph \in SeqRange(get_undetected_photos(table, DetectLimit)) :
                         ph.id = t.photo_id]

\* Task.retry re-submits the message with one more retry
Retry(t) == [photo_id |-> t.photo_id, s3_key |-> t.s3_key, run |-> t.run,
             retries |-> t.retries + 1]

\* keys of the stored images the Photo rows of a run point at
ImageKeys == 1..2

InitDetect ==
    /\ activeCameras = {}
    /\ schedIn = Null
    /\ schedResult = Null
    /\ fanout = {}
    /\ capQueue = {}
    /\ capLast = [c \in CameraIds |-> Null]
    /\ chordResults = {}
    /\ chordFired = FALSE
    /\ sumQueue = {}
    /\ report = Null
    /\ lastConn = [c \in CameraIds |-> FALSE]
    /\ photos \in {[i \in 1..NumPhotos |-> NewPhoto(i, key[i])] :
                        key \in [1..NumPhotos -> ImageKeys]}
    /\ InitDetection
    /\ InitWorker
    /\ clsIn = <<>>
    /\ clsOut = Null
    /\ aggIn = <<>>
    /\ aggOut = Null

\* ------------------------------------------------------ DetectionScheduler
\* the apply_async calls of one run, in order
\*   failed: positions in the list whose call raises
Submissions(found, failed) ==
    SubSeq([k \in 1..Len(found) |->
               [photo_id |-> found[k].id, s3_key |-> found[k].s3_key, ok |-> k \notin failed]],
           1, Len(found))

\* scheduled_count of the loop over the calls
ScheduledCount_all(calls) == Len(calls)

ScheduledCount(calls) == Cardinality({k \in 1..Len(calls) : calls[k].ok})

\* one run of the scheduler
\*   queryOk: the query of get_undetected_photos did not raise
\*   failed:  the apply_async calls that raise, among the first MaxRows
schedule_photo_detection ==
    /\ detRuns' = detRuns + 1
    /\ \E queryOk \in BOOLEAN :
        \E found \in {IF queryOk THEN get_undetected_photos(photos, DetectLimit) ELSE <<>>} :
        IF found = <<>>
        THEN /\ detSched' = [status |-> "success", photos_scheduled |-> 0,
                             message |-> "No undetected photos"]
             /\ detCalls' = [query_ok |-> queryOk, calls |-> <<>>]
             /\ UNCHANGED detQueue
        ELSE \E failed \in SUBSET (1..Min(Len(found), MaxRows)) :
             \E calls \in {Submissions(found, failed)} :
             /\ detQueue' = detQueue \cup
                    {[photo_id |-> calls[k].photo_id, s3_key |-> calls[k].s3_key,
                      run |-> detRuns + 1, retries |-> 0] :
                        k \in {k \in 1..Len(calls) : calls[k].ok}}
             /\ detSched' = [status |-> "success",
                             photos_scheduled |-> ScheduledCount(calls),
                             total_found |-> Len(found)]
             /\ detCalls' = [query_ok |-> queryOk, calls |-> calls]
    /\ UNCHANGED <<capVars, objectRows, detWrites, detRunning, detLast, aggVars, wrkVars>>

\* ------------------------------------------------------------ DetectionUnit
\* update_photo_detection(photo_id, counts, has_detected_objects)
update_photo_detection_keep(table, photo_id, counts, has_detected_objects) ==
    [table EXCEPT ![photo_id] =
        [@ EXCEPT !.has_detected_objects = has_detected_objects, !.counts = counts]]

update_photo_detection(table, photo_id, counts, has_detected_objects) ==
    [table EXCEPT ![photo_id] =
        [@ EXCEPT !.detected = TRUE, !.has_detected_objects = has_detected_objects,
                  !.counts = counts]]

\* save_detected_objects(photo_id, detected_objects): the rows of one batch
\* insert, made inside one db.atomic() block
save_detected_objects_first(photo_id, detected_objects) ==
    [i \in 1..1 |-> detected_objects[i].name]

save_detected_objects(photo_id, detected_objects) ==
    [i \in 1..Len(detected_objects) |-> detected_objects[i].name]

\* a worker of queue 'detection' takes a message and runs the task body up to
\* the return of update_photo_detection
\*   fault: a fault of detect_objects, "update" (update_photo_detection gives
\*   False), or "exception" (an exception reaches the handler of the task body)
DetectStart(m) ==
    /\ m \in detQueue
    /\ \E fault \in DetectFaults \cup {"update", "exception"} :
        LET result == detect_objects(m.photo_id, m.s3_key,
                          IF fault \in DetectFaults THEN fault ELSE "none")
        IN
        IF fault = "exception"
        THEN /\ detLast' = Finished(m, fault, "exception", FALSE, photos)
             /\ detQueue' = IF DetectAttempt(m.retries, "exception").retried
                            THEN (detQueue \ {m}) \cup {Retry(m)}
                            ELSE detQueue \ {m}
             /\ UNCHANGED <<photos, detWrites, detRunning>>
        ELSE IF result = Null
        THEN /\ detLast' = Finished(m, fault, "detect_failed", FALSE, photos)
             /\ detQueue' = detQueue \ {m}
             /\ UNCHANGED <<photos, detWrites, detRunning>>
        ELSE IF fault = "update"
        THEN /\ detLast' = Finished(m, fault, "update_failed", FALSE, photos)
             /\ detQueue' = detQueue \ {m}
             /\ UNCHANGED <<photos, detWrites, detRunning>>
        ELSE /\ photos' = update_photo_detection(photos, m.photo_id, result.counts,
                                                 result.has_detected_objects)
             /\ detWrites' = [detWrites EXCEPT ![m.photo_id] = @ + 1]
             /\ detRunning' = detRunning \cup
                    {[photo_id |-> m.photo_id, s3_key |-> m.s3_key, run |-> m.run,
                      retries |-> m.retries,
                      detected_objects |-> result.detected_objects]}
             /\ detQueue' = detQueue \ {m}
             /\ UNCHANGED detLast
    /\ UNCHANGED <<activeCameras, schedIn, schedResult, fanout, capQueue, capLast,
                   chordResults, chordFired, sumQueue, report, lastConn, objectRows,
                   detRuns, detSched, detCalls, aggVars, wrkVars>>

\* how the task body goes on once save_detected_objects has returned
\* save_success: a False is logged as a warning and nothing else
AfterSave_strict(save_success) == IF save_success THEN "done" ELSE "exception"

AfterSave(save_success) == "done"

\* the rest of the task body: the object rows, then the success dictionary
\*   ok: the batch insert of save_detected_objects did not fail (the function
\*   is called for a non-empty detected_objects only)
DetectSave(t) ==
    /\ t \in detRunning
    /\ \E ok \in BOOLEAN :
        LET called == t.detected_objects # <<>>
            save_success == ~called \/ ok
            stage == AfterSave(save_success)
        IN
        /\ called \/ ok
        /\ objectRows' = IF called /\ ok
                         THEN [objectRows EXCEPT ![t.photo_id] =
                                  @ \o save_detected_objects(t.photo_id, t.detected_objects)]
                         ELSE objectRows
        /\ detLast' = Finished(t, IF save_success THEN "none" ELSE "save", stage, TRUE, photos)
        /\ detQueue' = IF DetectAttempt(t.retries, stage).retried
                       THEN detQueue \cup {Retry(t)}
                       ELSE detQueue
    /\ detRunning' = detRunning \ {t}
    /\ UNCHANGED <<capVars, detRuns, detSched, detCalls, detWrites, aggVars, wrkVars>>

\* an exception reaches the handler of the task body after
\* update_photo_detection returned True: Task.retry(exc=e, countdown=60)
DetectException(t) ==
    /\ t \in detRunning
    /\ detRunning' = detRunning \ {t}
    /\ detLast' = Finished(t, "exception", "exception", TRUE, photos)
    /\ detQueue' = IF DetectAttempt(t.retries, "exception").retried
                   THEN detQueue \cup {Retry(t)}
                   ELSE detQueue
    /\ UNCHANGED <<capVars, objectRows, detRuns, detSched, detCalls, detWrites, aggVars, wrkVars>>

NextDetect ==
    \/ detRuns < MaxDetRuns /\ schedule_photo_detection
    \/ \E m \in detQueue : DetectStart(m)
    \/ \E t \in detRunning : DetectSave(t)
    \/ \E t \in detRunning : DetectException(t)

SpecDetect == InitDetect /\ [][NextDetect]_vars

\* one pass of the scheduler and the units it starts
NextUnits ==
    \/ detRuns < 1 /\ schedule_photo_detection
    \/ \E m \in detQueue : DetectStart(m)
    \/ \E t \in detRunning : DetectSave(t)
    \/ \E t \in detRunning : DetectException(t)

SpecUnits == InitDetect /\ [][NextUnits]_vars

\* ------------------------------ the scheduler over Photo tables of any shape
Perms(n) == {f \in [1..n -> 1..n] : \A i, j \in 1..n : i # j => f[i] # f[j]}

\* a row that a DetectionUnit has processed and found empty
ProcessedPhoto(created_at, s3_key) ==
    [NewPhoto(created_at, s3_key) EXCEPT !.detected = TRUE]

\* tables of up to MaxRows rows: any order of creation, any rows processed
SmallTables ==
    UNION {{[i \in 1..n |-> IF d[i] THEN ProcessedPhoto(c[i], i + 10)
                                    ELSE NewPhoto(c[i], i + 10)] :
                c \in Perms(n), d \in [1..n -> BOOLEAN]} : n \in 0..MaxRows}

\* a backlog of n unprocessed rows, the two of lowest id created in the other order
Backlog(n) ==
    [i \in 1..n |-> NewPhoto(IF i = 1 THEN 2 ELSE IF i = 2 THEN 1 ELSE i, i + 10)]

\* backlogs of as many rows as the limit, one more, and half as many again
BacklogSizes == {DetectLimit, DetectLimit + 1, DetectLimit + DetectLimit \div 2}

InitSched ==
    /\ activeCameras = {}
    /\ schedIn = Null
    /\ schedResult = Null
    /\ fanout = {}
    /\ capQueue = {}
    /\ capLast = [c \in CameraIds |-> Null]
    /\ chordResults = {}
    /\ chordFired = FALSE
    /\ sumQueue = {}
    /\ report = Null
    /\ lastConn = [c \in CameraIds |-> FALSE]
    /\ photos \in SmallTables \cup {Backlog(n) : n \in BacklogSizes}
    /\ InitDetection
    /\ InitWorker
    /\ clsIn = <<>>
    /\ clsOut = Null
    /\ aggIn = <<>>
    /\ aggOut = Null

NextSched == detRuns < MaxDetRuns /\ schedule_photo_detection

SpecSched == InitSched /\ [][NextSched]_vars

\* ------------------------------ one run of each of the two schedulers
InitSchedulers ==
    /\ activeCameras \in SUBSET CameraIds
    /\ schedIn = Null
    /\ schedResult = Null
    /\ fanout = {}
    /\ capQueue = {}
    /\ capLast = [c \in CameraIds |-> Null]
    /\ chordResults = {}
    /\ chordFired = FALSE
    /\ sumQueue = {}
    /\ report = Null
    /\ lastConn = [c \in CameraIds |-> FALSE]
    /\ photos \in SmallTables
    /\ InitDetection
    /\ InitWorker
    /\ clsIn = <<>>
    /\ clsOut = Null
    /\ aggIn = <<>>
    /\ aggOut = Null

NextSchedulers ==
    \/ schedule_camera_captures
    \/ detRuns < 1 /\ schedule_photo_detection

SpecSchedulers == InitSchedulers /\ [][NextSchedulers]_vars

\* ------------------- scheduler passes and units that go on for ever
\* keys whose object is not in the bucket: download_file answers 404 on
\* every attempt, so detect_objects gives None for them every time
LostKeys == {0}

\* n rows whose image is lost, then one newer row whose image is there
\* (created_at rises with the id)
Stuck(n) ==
    [i \in 1..(n + 1) |-> NewPhoto(i, IF i <= n THEN 0 ELSE 1)]

\* one row fewer than the limit, and as many as the limit, are lost
StuckSizes == {DetectLimit - 1, DetectLimit}

InitLive ==
    /\ activeCameras = {}
    /\ schedIn = Null
    /\ schedResult = Null
    /\ fanout = {}
    /\ capQueue = {}
    /\ capLast = [c \in CameraIds |-> Null]
    /\ chordResults = {}
    /\ chordFired = FALSE
    /\ sumQueue = {}
    /\ report = Null
    /\ lastConn = [c \in CameraIds |-> FALSE]
    /\ photos \in {Stuck(n) : n \in StuckSizes}
    /\ InitDetection
    /\ InitWorker
    /\ clsIn = <<>>
    /\ clsOut = Null
    /\ aggIn = <<>>
    /\ aggOut = Null

\* a run of schedule_photo_detection in which neither the query nor an
\* apply_async call raises, started by beat after the units of the run
\* before it have ended (detRuns counts the runs up to MaxDetRuns)
SchedulerPass ==
    /\ detQueue = {}
    /\ detRunning = {}
    /\ \E run \in {Min(detRuns + 1, MaxDetRuns)} :
       \E found \in {get_undetected_photos(photos, DetectLimit)} :
       \E calls \in {Submissions(found, {})} :
        /\ detRuns' = run
        /\ detQueue' = {[photo_id |-> calls[k].photo_id, s3_key |-> calls[k].s3_key,
                         run |-> run, retries |-> 0] : k \in 1..Len(calls)}
        /\ detSched' = IF found = <<>>
                       THEN [status |-> "success", photos_scheduled |-> 0,
                             message |-> "No undetected photos"]
                       ELSE [status |-> "success",
                             photos_scheduled |-> ScheduledCount(calls),
                             total_found |-> Len(found)]
        /\ detCalls' = [query_ok |-> TRUE, calls |-> calls]
    /\ UNCHANGED <<capVars, objectRows, detWrites, detRunning, detLast, aggVars, wrkVars>>

\* a worker runs the message of queue 'detection' that was published first
\* (the order of the query, here the order of the ids), from the call of
\* detect_objects to the return: the fetch fails for a lost image, and
\* nothing fails for any other
DetectUnitRun ==
    /\ detQueue # {}
    /\ \E m \in {m \in detQueue : \A o \in detQueue : m.photo_id <= o.photo_id} :
        LET lost == m.s3_key \in LostKeys
            result == detect_objects(m.photo_id, m.s3_key, IF lost THEN "download" ELSE "none")
        IN
        /\ detQueue' = detQueue \ {m}
        /\ IF result = Null
           THEN /\ detLast' = Finished(m, "download", "detect_failed", FALSE, photos)
                /\ UNCHANGED <<photos, detWrites, objectRows>>
           ELSE \E table \in {update_photo_detection(photos, m.photo_id, result.counts,
                                                      result.has_detected_objects)} :
                /\ photos' = table
                /\ detWrites' = [detWrites EXCEPT ![m.photo_id] = @ + 1]
                /\ objectRows' = [objectRows EXCEPT ![m.photo_id] =
                                     @ \o save_detected_objects(m.photo_id,
                                                                result.detected_objects)]
                /\ detLast' = Finished(m, "none", AfterSave(TRUE), TRUE, table)
    /\ UNCHANGED <<activeCameras, schedIn, schedResult, fanout, capQueue, capLast,
                   chordResults, chordFired, sumQueue, report, lastConn,
                   detRuns, detSched, detCalls, detRunning, aggVars, wrkVars>>

NextLive ==
    \/ SchedulerPass
    \/ DetectUnitRun

\* beat starts a run every three minutes and the workers of queue
\* 'detection' take every message
SpecLive ==
    /\ InitLive
    /\ [][NextLive]_vars
    /\ WF_vars(SchedulerPass)
    /\ WF_vars(DetectUnitRun)

\* ------------------------------ the detect step in one worker process
\* points at which a detect_objects call can fail; "none" is the fault-free run
\*   client:   download_from_s3 raises before it creates its temporary file
\*   download: download_file raises after the temporary file was created
\*   model:    YOLO(YOLO_MODEL_PATH) raises
\*   model_to: _model.to(_device) raises
\*   predict:  model.predict raises
\*   empty:    model.predict returns no results
StepFaults == {"none", "client", "download", "model", "model_to", "predict", "empty"}

\* download_from_s3(s3_key): the returned path (Null for None) and whether
\* the file made by NamedTemporaryFile(delete=False) is on the disk afterwards
download_from_s3(path, fault) ==
    CASE fault = "client"   -> [local_path |-> Null, on_disk |-> FALSE]
      [] fault = "download" -> [local_path |-> Null, on_disk |-> TRUE]
      [] OTHER              -> [local_path |-> [path |-> path], on_disk |-> TRUE]

\* get_yolo_model(): the globals after the call, and whether the call raised
get_yolo_model_reload(model, device, loads, fault) ==
    CASE fault = "model"    -> [model |-> model, device |-> "cpu", loads |-> loads,
                                raised |-> TRUE]
      [] fault = "model_to" -> [model |-> loads + 1, device |-> "cpu", loads |-> loads + 1,
                                raised |-> TRUE]
      [] OTHER              -> [model |-> loads + 1, device |-> "cpu", loads |-> loads + 1,
                                raised |-> FALSE]

get_yolo_model(model, device, loads, fault) ==
    IF model # 0
    THEN [model |-> model, device |-> device, loads |-> loads, raised |-> FALSE]
    ELSE CASE fault = "model"    -> [model |-> 0, device |-> "cpu", loads |-> loads,
                                     raised |-> TRUE]
           [] fault = "model_to" -> [model |-> loads + 1, device |-> "cpu",
                                     loads |-> loads + 1, raised |-> TRUE]
           [] OTHER              -> [model |-> loads + 1, device |-> "cpu",
                                     loads |-> loads + 1, raised |-> FALSE]

\* the finally block of detect_objects: the file at local_path is removed
\* when local_path is set
Cleanup(files, local_path) ==
    IF local_path = Null THEN files ELSE files \ {local_path.path}

\* one call of detect_objects(photo_id, s3_key) in the worker process
DetectObjectsStep ==
    /\ stepCount < MaxSteps
    /\ \E photo_id \in 1..NumPhotos, s3_key \in ImageKeys, fault \in StepFaults :
        LET path == stepCount + 1
            dl == download_from_s3(path, fault)
            onDisk == IF dl.on_disk THEN tmpFiles \cup {path} ELSE tmpFiles
            gm == get_yolo_model(_model, _device, modelLoads, fault)
        IN
        IF dl.local_path = Null
        THEN /\ tmpFiles' = Cleanup(onDisk, dl.local_path)
             /\ stepLast' = [photo_id |-> photo_id, s3_key |-> s3_key, fault |-> fault,
                             path |-> path, cached |-> _model # 0, handle |-> 0,
                             result |-> Null]
             /\ UNCHANGED <<_model, _device, modelLoads>>
        ELSE /\ _model' = gm.model
             /\ _device' = gm.device
             /\ modelLoads' = gm.loads
             /\ tmpFiles' = Cleanup(onDisk, dl.local_path)
             /\ stepLast' = [photo_id |-> photo_id, s3_key |-> s3_key, fault |-> fault,
                             path |-> path, cached |-> _model # 0,
                             handle |-> IF gm.raised THEN 0 ELSE gm.model,
                             result |-> IF gm.raised
                                        THEN Null
                                        ELSE detect_objects(photo_id, s3_key,
                                                 IF fault \in {"predict", "empty"}
                                                 THEN fault ELSE "none")]
    /\ stepCount' = stepCount + 1
    /\ UNCHANGED <<capVars, detVars, aggVars, clsIn, clsOut, sysConf,
            bucket, s3Last, broker, pools, cropExc>>

InitStep == Init /\ activeCameras = {}

SpecWorker == InitStep /\ [][DetectObjectsStep]_vars

\* ------------------------------------- direct calls of the classifier
\* raw detections: classes with and without an entry of CLASS_CONFIG, and
\* confidences below, at and above MIN_CONFIDENCE
RawClasses == {"car", "cat", "bus", "bicycle"}
RawConfidences == {20, 35, MIN_CONFIDENCE - 1, MIN_CONFIDENCE, MIN_CONFIDENCE + 1}

BoxLists ==
    UNION {[1..n -> [cls : RawClasses, conf : RawConfidences]] : n \in 0..MaxBoxes}

InitClassify ==
    /\ InitCapture
    /\ InitDetection
    /\ InitWorker
    /\ activeCameras = {}
    /\ clsIn \in BoxLists
    /\ clsOut = Null
    /\ aggIn = <<>>
    /\ aggOut = Null

ClassifyCall ==
    /\ clsOut = Null
    /\ clsOut' = Classify(1, clsIn)
    /\ UNCHANGED <<capVars, detVars, aggVars, _model, _device, modelLoads, tmpFiles,
                   stepCount, stepLast, clsIn, sysConf, bucket, s3Last,
                   broker, pools, cropExc>>

SpecClassify == InitClassify /\ [][ClassifyCall]_vars

\* ------------------- the classifier under a configured system confidence
\* YOLO_SYSTEM_CONFIDENCE comes from the environment: its default, and a
\* value above MIN_CONFIDENCE (the 0.85 of tests/test_detection_utils.py)
SystemConfidences == {YOLO_SYSTEM_CONFIDENCE, 85}

\* raw detections of two classes with the same canonical class, of a class
\* of its own and of a class without an entry, below MIN_CONFIDENCE, at it,
\* and at the higher system confidence
BucketClasses == {"dog", "cat", "car", "bicycle"}
BucketConfidences == {30, MIN_CONFIDENCE, 85}

BucketBoxLists ==
    UNION {[1..n -> [cls : BucketClasses, conf : BucketConfidences]] : n \in 0..MaxBoxes}

InitBuckets ==
    /\ InitCapture
    /\ InitDetection
    /\ activeCameras = {}
    /\ _model = 0
    /\ _device = ""
    /\ modelLoads = 0
    /\ tmpFiles = {}
    /\ stepCount = 0
    /\ stepLast = Null
    /\ sysConf \in SystemConfidences
    /\ bucket = {}
    /\ s3Last = Null
    /\ broker = [capture |-> <<>>, detection |-> <<>>]
    /\ pools = {"capture", "detection"}
    /\ cropExc = <<>>
    /\ clsIn \in BucketBoxLists
    /\ clsOut = Null
    /\ aggIn = <<>>
    /\ aggOut = Null

SpecBuckets == InitBuckets /\ [][ClassifyCall]_vars

\* ------------------------------------- direct calls of the aggregator
OutcomeLists ==
    UNION {{[i \in 1..n |-> [status |-> f[i]]] : f \in [1..n -> CaptureStatuses]} : n \in 0..MaxLen}

InitAgg ==
    /\ InitCapture
    /\ InitDetection
    /\ InitWorker
    /\ activeCameras = {}
    /\ clsIn = <<>>
    /\ clsOut = Null
    /\ aggIn \in OutcomeLists
    /\ aggOut = Null

SummarizeCall ==
    /\ aggOut = Null
    /\ aggOut' = summarize_capture_results(aggIn)
    /\ UNCHANGED <<capVars, detVars, aggIn, wrkVars>>

SpecAgg == InitAgg /\ [][SummarizeCall]_vars

\* ------------------------------------------- direct calls of the S3 helpers
\* what the boto3 call inside a helper does: it returns, raises
\* botocore.exceptions.ClientError, or raises an exception of another class
\* (EndpointConnectionError, NoCredentialsError, ...)
S3Raises == {"none", "ClientError", "Exception"}
S3Keys == 1..2

\* upload_to_s3(file_data, s3_key): the returned pair, the bucket afterwards,
\* and whether the call raised.  at: the boto3 call that meets the fault
upload_to_s3(objects, s3_key, at, exc) ==
    IF exc = "none"
    THEN [value |-> <<TRUE, "presigned">>, objects |-> objects \cup {s3_key}, raised |-> FALSE]
    ELSE [value |-> <<FALSE, "">>,
          objects |-> IF at = "put_object" THEN objects ELSE objects \cup {s3_key},
          raised |-> FALSE]

\* delete_from_s3(s3_key): only ClientError is caught
delete_from_s3(objects, s3_key, exc) ==
    CASE exc = "none"        -> [value |-> TRUE, objects |-> objects \ {s3_key}, raised |-> FALSE]
      [] exc = "ClientError" -> [value |-> FALSE, objects |-> objects, raised |-> FALSE]
      [] OTHER               -> [value |-> Null, objects |-> objects, raised |-> TRUE]

UploadCall ==
    /\ stepCount < MaxSteps
    /\ \E s3_key \in S3Keys, exc \in S3Raises, at \in {"put_object", "generate_presigned_url"} :
        LET r == upload_to_s3(bucket, s3_key, at, exc) IN
        /\ bucket' = r.objects
        /\ s3Last' = [op |-> "upload_to_s3", s3_key |-> s3_key, exc |-> exc,
                      value |-> r.value, raised |-> r.raised]
    /\ stepCount' = stepCount + 1
    /\ UNCHANGED <<capVars, detVars, aggVars, _model, _device, modelLoads, tmpFiles,
                   stepLast, clsIn, clsOut, sysConf, broker, pools, cropExc>>

\* download_file answers ClientError 404 for a key that is not in the bucket
DownloadCall ==
    /\ stepCount < MaxSteps
    /\ \E s3_key \in S3Keys, raises \in S3Raises :
        LET exc == IF raises = "none" /\ s3_key \notin bucket THEN "ClientError" ELSE raises
            path == stepCount + 1
            r == download_from_s3(path, IF exc = "none" THEN "none" ELSE "download")
        IN
        /\ tmpFiles' = IF r.on_disk THEN tmpFiles \cup {path} ELSE tmpFiles
        /\ s3Last' = [op |-> "download_from_s3", s3_key |-> s3_key, exc |-> exc,
                      value |-> r.local_path, raised |-> FALSE]
    /\ stepCount' = stepCount + 1
    /\ UNCHANGED <<capVars, detVars, aggVars, _model, _device, modelLoads,
                   stepLast, clsIn, clsOut, sysConf, bucket, broker, pools, cropExc>>

DeleteCall ==
    /\ stepCount < MaxSteps
    /\ \E s3_key \in S3Keys, exc \in S3Raises :
        LET r == delete_from_s3(bucket, s3_key, exc) IN
        /\ bucket' = r.objects
        /\ s3Last' = [op |-> "delete_from_s3", s3_key |-> s3_key, exc |-> exc,
                      value |-> r.value, raised |-> r.raised]
    /\ stepCount' = stepCount + 1
    /\ UNCHANGED <<capVars, detVars, aggVars, _model, _device, modelLoads, tmpFiles,
                   stepLast, clsIn, clsOut, sysConf, broker, pools, cropExc>>

NextS3 ==
    \/ UploadCall
    \/ DownloadCall
    \/ DeleteCall

SpecS3 == InitStep /\ [][NextS3]_vars

\* ------------------------------------ classification with failing crop uploads
CropClasses == {"car", "dog", "bicycle"}
CropConfidences == {MIN_CONFIDENCE - 1, 85}

CropBoxLists ==
    UNION {[1..n -> [cls : CropClasses, conf : CropConfidences]] : n \in 0..MaxBoxes}

InitCrops ==
    /\ InitCapture
    /\ InitDetection
    /\ activeCameras = {}
    /\ _model = 0
    /\ _device = ""
    /\ modelLoads = 0
    /\ tmpFiles = {}
    /\ stepCount = 0
    /\ stepLast = Null
    /\ sysConf = YOLO_SYSTEM_CONFIDENCE
    /\ bucket = {}
    /\ s3Last = Null
    /\ broker = [capture |-> <<>>, detection |-> <<>>]
    /\ pools = {"capture", "detection"}
    /\ clsIn \in CropBoxLists
    /\ cropExc \in [1..Len(clsIn) -> CropOutcomes]
    /\ clsOut = Null
    /\ aggIn = <<>>
    /\ aggOut = Null

SpecCrops == InitCrops /\ [][ClassifyCall]_vars

\* ------------------------------------------------ the broker and its queues
QueueNames == {"capture", "detection"}
task_default_queue == "capture"

task_routes_detection(task) ==
    CASE task = "tasks.capture_single_camera"      -> "capture"
      [] task = "tasks.summarize_capture_results"  -> "detection"
      [] task = "tasks.schedule_camera_captures"   -> "capture"
      [] task = "tasks.detect_single_photo"        -> "detection"
      [] task = "tasks.schedule_photo_detection"   -> "detection"
      [] task = "tasks.run_scheduled_tests"        -> "capture"
      [] OTHER                                     -> task_default_queue

\* app.conf task_routes: the queue of a message sent without a queue option
task_routes(task) ==
    CASE task = "tasks.capture_single_camera"      -> "capture"
      [] task = "tasks.summarize_capture_results"  -> "capture"
      [] task = "tasks.schedule_camera_captures"   -> "capture"
      [] task = "tasks.detect_single_photo"        -> "detection"
      [] task = "tasks.schedule_photo_detection"   -> "detection"
      [] task = "tasks.run_scheduled_tests"        -> "capture"
      [] OTHER                                     -> task_default_queue

\* the two periodic entries of app.conf.beat_schedule that start the
\* pipelines, each with the queue of its 'options'
beat_schedule ==
    {[task |-> "tasks.schedule_camera_captures", queue |-> "capture"],
     [task |-> "tasks.schedule_photo_detection", queue |-> "detection"]}

\* a message: the task it names and request.retries.  traced singles out one
\* message at a time so that its own execution can be told from that of an
\* equal message
Message(task, retries, traced) == [task |-> task, retries |-> retries, traced |-> traced]

Traced(b) == \E q \in QueueNames : \E i \in 1..Len(b[q]) : b[q][i].traced

Room(b, q) == QueueCap - Len(b[q])

\* n messages of one task appended to queue q, the first traced iff tr
Publish(b, q, task, retries, n, tr) ==
    [b EXCEPT ![q] = @ \o SubSeq([i \in 1..n |-> Message(task, retries, tr /\ i = 1)], 1, n)]

\* celery beat sends a due entry
BeatTick ==
    /\ \E e \in beat_schedule, tr \in BOOLEAN :
        /\ Room(broker, e.queue) > 0
        /\ tr => ~Traced(broker)
        /\ broker' = Publish(broker, e.queue, e.task, 0, 1, tr)
    /\ UNCHANGED <<capVars, detVars, aggVars, _model, _device, modelLoads, tmpFiles, stepCount,
                   stepLast, clsIn, clsOut, sysConf, bucket, s3Last, pools, cropExc>>

\* a process of the pool that serves queue q takes the oldest message of q
\* and runs its task to the end; what the task sends goes where the code
\* sends it: the chord header and callback by task_routes, the detection
\* units by the queue option of apply_async, a retry to the queue of
\* request.delivery_info
Worker(q) ==
    /\ q \in pools
    /\ broker[q] # <<>>
    /\ \E tr \in BOOLEAN :
        LET m == Head(broker[q])
            b == [broker EXCEPT ![q] = Tail(@)]
        IN
        /\ tr => ~Traced(broker)
        /\ \/ /\ m.task = "tasks.schedule_camera_captures"
              /\ \E n \in 0..Room(b, task_routes("tasks.capture_single_camera")) :
                    /\ tr => n > 0
                    /\ broker' = Publish(b, task_routes("tasks.capture_single_camera"),
                                         "tasks.capture_single_camera", 0, n, tr)
           \/ /\ m.task = "tasks.capture_single_camera"
              /\ \/ /\ ~tr
                    /\ broker' = b
                 \/ /\ ~RetryExhausted(m.retries, CaptureMaxRetries)
                    /\ broker' = Publish(b, q, m.task, m.retries + 1, 1, tr)
                 \/ /\ Room(b, task_routes("tasks.summarize_capture_results")) > 0
                    /\ broker' = Publish(b, task_routes("tasks.summarize_capture_results"),
                                         "tasks.summarize_capture_results", 0, 1, tr)
           \/ /\ m.task = "tasks.summarize_capture_results"
              /\ ~tr
              /\ broker' = b
           \/ /\ m.task = "tasks.schedule_photo_detection"
              /\ \E n \in 0..Room(b, "detection") :
                    /\ tr => n > 0
                    /\ broker' = Publish(b, "detection", "tasks.detect_single_photo", 0, n, tr)
           \/ /\ m.task = "tasks.detect_single_photo"
              /\ \/ /\ ~tr
                    /\ broker' = b
                 \/ /\ ~RetryExhausted(m.retries, DetectMaxRetries)
                    /\ broker' = Publish(b, q, m.task, m.retries + 1, 1, tr)
    /\ UNCHANGED <<capVars, detVars, aggVars, _model, _device, modelLoads, tmpFiles, stepCount,
                   stepLast, clsIn, clsOut, sysConf, bucket, s3Last, pools, cropExc>>

\* the pools that take messages: both, or one only while every process of
\* the other is held up
InitQueues ==
    /\ InitCapture
    /\ InitDetection
    /\ activeCameras = {}
    /\ _model = 0
    /\ _device = ""
    /\ modelLoads = 0
    /\ tmpFiles = {}
    /\ stepCount = 0
    /\ stepLast = Null
    /\ sysConf = YOLO_SYSTEM_CONFIDENCE
    /\ bucket = {}
    /\ s3Last = Null
    /\ broker = [capture |-> <<>>, detection |-> <<>>]
    /\ pools \in {QueueNames, {"capture"}, {"detection"}}
    /\ cropExc = <<>>
    /\ clsIn = <<>>
    /\ clsOut = Null
    /\ aggIn = <<>>
    /\ aggOut = Null

NextQueues ==
    \/ BeatTick
    \/ Worker("capture")
    \/ Worker("detection")

\* a pool that takes messages keeps taking them
SpecQueues ==
    /\ InitQueues
    /\ [][NextQueues]_vars
    /\ WF_vars(Worker("capture"))
    /\ WF_vars(Worker("detection"))

\* ================================================================ claims
Pending(c) == \E m \in capQueue : m.camera_id = c

\* C1: when the aggregator has reported on a batch of N fanned-out camera
\* ids, its total is N and the four status counts add up to the total.
C1_ReportCoversBatch ==
    report # Null =>
        /\ report.total = Cardinality(fanout)
        /\ report.success + report.not_found + report.max_retries + report.errors
              = report.total

C1_Witness ==
    /\ report # Null
    /\ report.total >= 2
    /\ report.success >= 1
    /\ \E c \in CameraIds : capLast[c] # Null /\ capLast[c].retries >= 1

\* C2: the aggregator has run only if no CaptureUnit of the batch has an
\* attempt waiting or running.
C2_AggregatorAfterAllUnits ==
    report # Null => capQueue = {}

\* C3: an attempt whose capture did not succeed is followed by a retry while
\* fewer than 2 retries were made, the attempt after the second retry returns
\* failed_after_retries with no further retry, and no such attempt raises.
C3_RetriedUpToBound ==
    \A c \in CameraIds :
        (capLast[c] # Null /\ capLast[c].cap \in {"failed", "none"}) =>
            /\ ~capLast[c].raised
            /\ capLast[c].retries <= 2
            /\ IF capLast[c].retries < 2
               THEN /\ capLast[c].retried
                    /\ [camera_id |-> c, retries |-> capLast[c].retries + 1] \in capQueue
               ELSE /\ ~capLast[c].retried
                    /\ capLast[c].status = "failed_after_retries"
                    /\ ~Pending(c)

C3_Witness ==
    \E c \in CameraIds :
        /\ capLast[c] # Null
        /\ capLast[c].cap = "failed"
        /\ capLast[c].retries = 2
        /\ capLast[c].status = "failed_after_retries"

\* C4: an attempt that returned an outcome with one of the four statuses
\* did not request a retry, and no attempt of its unit is waiting.
C4_NoRetryAfterOutcome ==
    \A c \in CameraIds :
        (capLast[c] # Null /\ capLast[c].status \in CaptureStatuses) =>
            /\ ~capLast[c].retried
            /\ ~Pending(c)

\* C5: summarize_capture_results returns total = length of its list,
\* success = number of success outcomes, failed = total - success, and the
\* not_found / max_retries / errors counts of the respective statuses;
\* [success, error, failed_after_retries] gives 3, 1, 2 and errors 1,
\* max_retries 1, not_found 0.
NumWith(results, st) == Cardinality({i \in 1..Len(results) : results[i].status = st})

C5_AggregatorCounts ==
    aggOut # Null =>
        /\ aggOut.total = Len(aggIn)
        /\ aggOut.success = NumWith(aggIn, "success")
        /\ aggOut.failed = Len(aggIn) - NumWith(aggIn, "success")
        /\ aggOut.not_found = NumWith(aggIn, "not_found")
        /\ aggOut.max_retries = NumWith(aggIn, "failed_after_retries")
        /\ aggOut.errors = NumWith(aggIn, "error")
        /\ aggIn = <<[status |-> "success"], [status |-> "error"],
                     [status |-> "failed_after_retries"]>>
              => aggOut = [total |-> 3, success |-> 1, failed |-> 2,
                           not_found |-> 0, max_retries |-> 1, errors |-> 1]

C5_Witness ==
    /\ aggOut # Null
    /\ aggIn = <<[status |-> "success"], [status |-> "error"],
                 [status |-> "failed_after_retries"]>>

\* C6: an attempt whose camera lookup missed returned not_found, made no
\* capture (no connection status written, no Photo row), requested no retry
\* and leaves no attempt of its unit waiting.
C6_NotFoundIsTerminal ==
    \A c \in CameraIds :
        (capLast[c] # Null /\ capLast[c].cap = "skipped") =>
            /\ capLast[c].status = "not_found"
            /\ ~capLast[c].photo
            /\ ~capLast[c].retried
            /\ ~capLast[c].raised
            /\ ~Pending(c)

C6_Witness ==
    \E c \in CameraIds :
        /\ capLast[c] # Null
        /\ capLast[c].cap = "skipped"
        /\ capLast[c].retries = 0
        /\ capLast[c].status = "not_found"

\* C7: every attempt of a CaptureUnit ends by returning a dictionary with
\* one of the four statuses, never by raising; an attempt in which an
\* unexpected exception was raised returns status error with its message.
C7_ExceptionsBecomeError ==
    \A c \in CameraIds :
        capLast[c] # Null =>
            /\ ~capLast[c].raised
            /\ capLast[c].status \in CaptureStatuses
            /\ capLast[c].cap = "raised" =>
                  (capLast[c].status = "error" /\ capLast[c].error = "exception")

C7_Witness ==
    \E c \in CameraIds :
        /\ capLast[c] # Null
        /\ capLast[c].cap = "raised"
        /\ capLast[c].status = "error"

\* C8: an attempt of a DetectionUnit in which the image fetch, the
\* inference call or the counter update failed, made with fewer than 2
\* retries behind it, re-submitted the unit.
C8_FailedAttemptIsRetried ==
    (detLast # Null /\ detLast.fault \in {"download", "predict", "update"}
                    /\ detLast.retries < 2)
        => detLast.retried

\* C9: no attempt of a DetectionUnit ends by raising, and the attempt made
\* after the second retry that fails ends with status failed_after_retries.
C9_ExhaustedIsStructured ==
    detLast # Null =>
        /\ ~detLast.raised
        /\ (detLast.stage = "exception" /\ detLast.retries = 2)
              => detLast.status = "failed_after_retries"

\* C10: when an attempt of a DetectionUnit ends with anything but success,
\* the Photo row has detected_at null and zero counters, and the discovery
\* query returns the photo.
C10_FailureLeavesPhotoUndetected ==
    (detLast # Null /\ detLast.status # "success") =>
        /\ ~detLast.row.detected
        /\ detLast.row.counts = ZeroCounts
        /\ detLast.rediscovered

\* C11: across scheduler runs and deliveries, the UPDATE of
\* update_photo_detection hits each Photo row at most once: a row that a
\* DetectionUnit has written is never written again.
C11_RowMutatedOnce ==
    \A p \in DOMAIN detWrites : detWrites[p] <= 1

\* C12: for every Photo row, detected_at is null if and only if all eight
\* counters are zero and the photo has no DetectedObject row.
C12_DetectedIffCounted ==
    \A p \in DOMAIN photos :
        (~photos[p].detected) <=> (photos[p].counts = ZeroCounts /\ objectRows[p] = <<>>)

\* C12 as amended: for every Photo row, if detected_at is null then all eight
\* counters are zero and the photo has no DetectedObject row.
C12_UndetectedIsBlank ==
    \A p \in DOMAIN photos :
        (~photos[p].detected) => (photos[p].counts = ZeroCounts /\ objectRows[p] = <<>>)

C12_Witness ==
    \E p \in DOMAIN photos :
        /\ ~photos[p].detected
        /\ detLast # Null
        /\ detLast.photo_id = p
        /\ detLast.stage = "update_failed"

\* the ids of the rows with detected_at null
Undetected == {i \in DOMAIN photos : ~photos[i].detected}

\* the messages the latest scheduler run put on queue 'detection'
SentByLatestRun == {m \in detQueue : m.run = detRuns}

\* C13: a DetectionScheduler run that finds no Photo row with detected_at
\* null submits no DetectionUnit and reports photos_scheduled = 0, and so
\* does every further run in that state.
C13_NothingUndetectedNoFanOut ==
    (detRuns >= 1 /\ Undetected = {}) =>
        /\ detCalls.calls = <<>>
        /\ detQueue = {}
        /\ detSched = [status |-> "success", photos_scheduled |-> 0,
                       message |-> "No undetected photos"]

C13_Witness ==
    /\ detRuns >= 2
    /\ Len(photos) >= 2
    /\ Undetected = {}
    /\ detCalls.query_ok
    /\ detSched.photos_scheduled = 0

\* C14: with M rows of detected_at null, a run whose query succeeds calls
\* apply_async for exactly min(M, 100) photos, they are the min(M, 100) rows
\* of oldest created_at, called oldest first, and when no call fails that
\* many units are reported and queued (150 rows give exactly 100).
C14_OldestUpToLimit ==
    (detRuns >= 1 /\ detCalls.query_ok) =>
        LET calls == detCalls.calls
            n == IF Cardinality(Undetected) < DetectLimit
                 THEN Cardinality(Undetected) ELSE DetectLimit
            called == {calls[k].photo_id : k \in 1..Len(calls)}
        IN  /\ Len(calls) = n
            /\ Cardinality(called) = n
            /\ called \subseteq Undetected
            /\ \A i \in called, j \in Undetected \ called :
                   photos[i].created_at <= photos[j].created_at
            /\ \A k \in 1..(n - 1) :
                   photos[calls[k].photo_id].created_at
                      <= photos[calls[k + 1].photo_id].created_at
            /\ (\A k \in 1..n : calls[k].ok) =>
                   /\ n > 0 => detSched.total_found = n
                   /\ detSched.photos_scheduled = n
                   /\ Cardinality(SentByLatestRun) = n
            /\ Cardinality(Undetected) = DetectLimit + DetectLimit \div 2
                   => Len(calls) = DetectLimit

C14_Witness ==
    /\ detRuns >= 1
    /\ detCalls.query_ok
    /\ Cardinality(Undetected) > DetectLimit
    /\ Len(detCalls.calls) = DetectLimit
    /\ \A k \in 1..Len(detCalls.calls) : detCalls.calls[k].ok
    /\ detCalls.calls[1].photo_id = 2

\* C15: a run that discovers photos calls apply_async exactly once per
\* discovered photo with the id and file of its row, a call that raises does
\* not stop the later calls, nothing is registered to join the units, and the
\* result has total_found = number of discovered photos and photos_scheduled
\* = number of calls that did not raise.
C15_OneSubmissionPerPhoto ==
    (detRuns >= 1 /\ detCalls.calls # <<>>) =>
        LET calls == detCalls.calls
            discovered == get_undetected_photos(photos, DetectLimit)
            passed == {k \in 1..Len(calls) : calls[k].ok}
        IN  /\ Len(calls) = Len(discovered)
            /\ \A k \in 1..Len(calls) :
                   /\ calls[k].photo_id = discovered[k].id
                   /\ <<calls[k].s3_key>> = photos[calls[k].photo_id].file
                   /\ \A k2 \in 1..Len(calls) :
                          calls[k2].photo_id = calls[k].photo_id => k2 = k
            /\ detSched.total_found = Len(discovered)
            /\ detSched.photos_scheduled = Cardinality(passed)
            /\ SentByLatestRun =
                   {[photo_id |-> calls[k].photo_id, s3_key |-> calls[k].s3_key,
                     run |-> detRuns, retries |-> 0] : k \in passed}
            /\ sumQueue = {} /\ chordResults = {} /\ ~chordFired

C15_Witness ==
    /\ detRuns >= 1
    /\ Len(detCalls.calls) >= 3
    /\ ~detCalls.calls[1].ok
    /\ detCalls.calls[2].ok
    /\ ~detCalls.calls[3].ok
    /\ detSched.photos_scheduled = Len(detCalls.calls) - 2

\* the attempts of the CaptureUnit of camera c waiting on queue 'capture'
UnitsOf(c) == {m \in capQueue : m.camera_id = c}

\* C16: when cameras are in active states and neither the query nor the
\* chord submission raises, the run hands the chord exactly the active
\* camera ids, one CaptureUnit per id and none for any other camera, with
\* summarize_capture_results as the one callback of the chord, and it
\* reports scheduled = number of active camera ids.
C16_FanOutPerActiveCamera ==
    (schedIn # Null /\ schedIn.query_ok /\ schedIn.submit_ok /\ activeCameras # {}) =>
        /\ fanout = activeCameras
        /\ schedResult = [scheduled |-> Cardinality(activeCameras), error |-> ""]
        /\ \A c \in activeCameras :
               /\ Cardinality(UnitsOf(c)) <= 1
               /\ UnitsOf(c) # {} \/ capLast[c] # Null
        /\ \A c \in CameraIds \ activeCameras : UnitsOf(c) = {} /\ capLast[c] = Null
        /\ Cardinality(sumQueue) <= 1
        /\ chordFired <=> (sumQueue # {} \/ report # Null)
        /\ capQueue = {} => chordFired

C16_Witness ==
    /\ schedIn # Null
    /\ schedIn.query_ok /\ schedIn.submit_ok
    /\ Cardinality(activeCameras) >= 2
    /\ schedResult.scheduled = Cardinality(activeCameras)
    /\ capQueue = {[camera_id |-> c, retries |-> 0] : c \in activeCameras}

\* C17: when no camera is in an active state, the run returns scheduled = 0
\* and submits no CaptureUnit and no aggregator.
C17_NoActiveNoFanOut ==
    (schedResult # Null /\ activeCameras = {}) =>
        /\ schedResult.scheduled = 0
        /\ fanout = {}
        /\ capQueue = {}
        /\ \A c \in CameraIds : capLast[c] = Null
        /\ chordResults = {} /\ ~chordFired
        /\ sumQueue = {}
        /\ report = Null

C17_Witness ==
    /\ schedResult # Null
    /\ schedIn.query_ok
    /\ activeCameras = {}
    /\ schedResult = [scheduled |-> 0, error |-> "No active cameras"]

\* C18: once a detect_objects call has returned, on any of its exit paths,
\* the temporary file made for the image it fetched is no longer on the disk.
C18_NoTempFileAfterStep ==
    stepLast # Null => stepLast.path \notin tmpFiles

\* C19: in one worker process YOLO(YOLO_MODEL_PATH) is constructed at most
\* once; the handle it made stays in _model, and every detect_objects call
\* that gets a handle gets that one.
C19_ModelLoadedOnce ==
    /\ modelLoads <= 1
    /\ _model \in {0, 1}
    /\ _model # 0 => modelLoads = 1
    /\ (stepLast # Null /\ stepLast.handle # 0) => stepLast.handle = 1
    /\ (stepLast # Null /\ stepLast.cached) => _model = 1

C19_Witness ==
    /\ stepCount >= 3
    /\ modelLoads = 1
    /\ stepLast.cached
    /\ stepLast.fault = "model"
    /\ stepLast.handle = 1
    /\ stepLast.result # Null

\* the raw detections the rules keep: the class has an entry of CLASS_CONFIG
\* and the confidence is at least the min_confidence of that entry
KeptBoxes ==
    {i \in 1..Len(clsIn) :
        /\ clsIn[i].cls \in DOMAIN CLASS_CONFIG
        /\ clsIn[i].conf >= CLASS_CONFIG[clsIn[i].cls].min_confidence}

CountTotal(counts) ==
    counts.car_above + counts.car_below + counts.truck_above + counts.truck_below
    + counts.person_above + counts.person_below + counts.deer_above + counts.deer_below

\* C20: the loop of detect_objects emits an object for a raw detection if
\* and only if its class has an entry of CLASS_CONFIG and its confidence is
\* at least the min_confidence of the entry (a confidence equal to it is
\* kept); every other detection (a class without an entry, a cat at 0.20)
\* is dropped, and the counters and has_detected_objects count the kept
\* detections only.
C20_EmitsIffRuleAndConfidence ==
    clsOut # Null =>
        LET objs == clsOut.detected_objects IN
        /\ Len(objs) = Cardinality(KeptBoxes)
        /\ \A i \in 1..Len(clsIn) :
               (i \in KeptBoxes) <=>
                   \E k \in 1..Len(objs) :
                       /\ objs[k].s3_key[4] = i
                       /\ objs[k].original_name = clsIn[i].cls
                       /\ objs[k].confidence = clsIn[i].conf
        /\ CountTotal(clsOut.counts) = Cardinality(KeptBoxes)
        /\ clsOut.has_detected_objects <=> KeptBoxes # {}
        /\ clsOut.total_objects_detected = Cardinality(KeptBoxes)
        /\ \A i \in 1..Len(clsIn) :
               (clsIn[i].cls = "cat" /\ clsIn[i].conf = 20) => i \notin KeptBoxes

C20_Witness ==
    /\ clsOut # Null
    /\ Len(clsIn) = 2
    /\ clsIn[1] = [cls |-> "cat", conf |-> 20]
    /\ clsIn[2] = [cls |-> "bus", conf |-> MIN_CONFIDENCE]
    /\ Len(clsOut.detected_objects) = 1
    /\ clsOut.detected_objects[1].original_name = "bus"

\* the kept detections of a canonical class on one side of the system
\* confidence
KeptIn(name, above) ==
    {i \in KeptBoxes :
        /\ CLASS_CONFIG[clsIn[i].cls].map_to = name
        /\ (clsIn[i].conf >= sysConf) = above}

\* C21: every kept detection adds one to exactly one counter, the _above
\* counter of its canonical class when its confidence is at least the
\* system confidence (equality is above) and the _below counter otherwise;
\* raw classes with the same canonical class add to the same counter, so
\* every counter is the number of kept detections of its class and side.
C21_CounterPerClassAndBucket ==
    clsOut # Null =>
        /\ clsOut.counts.car_above = Cardinality(KeptIn("car", TRUE))
        /\ clsOut.counts.car_below = Cardinality(KeptIn("car", FALSE))
        /\ clsOut.counts.truck_above = Cardinality(KeptIn("truck", TRUE))
        /\ clsOut.counts.truck_below = Cardinality(KeptIn("truck", FALSE))
        /\ clsOut.counts.person_above = Cardinality(KeptIn("person", TRUE))
        /\ clsOut.counts.person_below = Cardinality(KeptIn("person", FALSE))
        /\ clsOut.counts.deer_above = Cardinality(KeptIn("deer", TRUE))
        /\ clsOut.counts.deer_below = Cardinality(KeptIn("deer", FALSE))
        /\ CountTotal(clsOut.counts) = Cardinality(KeptBoxes)

\* under a system confidence of 0.85 a dog at 0.80 is counted below and a
\* cat at exactly 0.85 above, both under deer
C21_Witness ==
    /\ clsOut # Null
    /\ sysConf = 85
    /\ clsIn = <<[cls |-> "dog", conf |-> MIN_CONFIDENCE], [cls |-> "cat", conf |-> 85]>>
    /\ clsOut.counts.deer_below = 1
    /\ clsOut.counts.deer_above = 1

C23_FailureBeforeRowIsFailedOutcome ==
    \A c \in CameraIds :
        (capLast[c] # Null /\ capLast[c].cap \in {"ok", "failed", "none"}
            /\ ~capLast[c].photo) =>
            /\ capLast[c].cap = "failed"
            /\ lastConn[c] = FALSE

\* C24: whatever the object-store call inside it raises, upload_to_s3
\* returns (False, ""), download_from_s3 returns None and delete_from_s3
\* returns False; none of the three raises.
C24_StoreFailureIsAValue ==
    (s3Last # Null /\ s3Last.exc # "none") =>
        /\ ~s3Last.raised
        /\ s3Last.op = "upload_to_s3" => s3Last.value = <<FALSE, "">>
        /\ s3Last.op = "download_from_s3" => s3Last.value = Null
        /\ s3Last.op = "delete_from_s3" => s3Last.value = FALSE

\* C25: at no time does an image have two DetectionUnits that are queued or
\* running: a scheduler run never fans out an image whose unit of an
\* earlier run has not finished.
C25_OneUnfinishedUnitPerImage ==
    \A p \in DOMAIN photos :
        Cardinality({m \in detQueue : m.photo_id = p})
            + Cardinality({t \in detRunning : t.photo_id = p}) <= 1

\* C26: the list the aggregator of a batch gets holds, for every camera id
\* that was fanned out, exactly one outcome, and it is the one the last
\* attempt of that camera returned: no attempt of the camera is still to
\* run, and no outcome of an attempt that was followed by a retry is in it.
C26_OneFinalOutcomePerCamera ==
    chordFired =>
        \A c \in fanout :
            /\ Cardinality({x \in chordResults : x.camera_id = c}) = 1
            /\ ~Pending(c)
            /\ capLast[c] # Null
            /\ ~capLast[c].retried
            /\ \A x \in chordResults :
                   x.camera_id = c => x.status = capLast[c].status /\ x.error = capLast[c].error

\* C27: an attempt in which update_photo_detection wrote the row and the
\* batch insert of the DetectedObject rows then failed ends with status
\* success and without a retry: the row keeps detected_at and the counters
\* of the detection, no object row exists, and no further delivery of the
\* unit is queued or running that would write the counters again.
C27_SaveFailureStillSuccess ==
    (detLast # Null /\ detLast.fault = "save") =>
        /\ detLast.status = "success"
        /\ ~detLast.retried
        /\ ~detLast.raised
        /\ detLast.wrote
        /\ detLast.row.detected
        /\ detLast.row.counts =
              detect_objects(detLast.photo_id, detLast.row.file[1], "none").counts
        /\ detLast.row.counts # ZeroCounts
        /\ photos[detLast.photo_id].detected
        /\ \A m \in detQueue \cup detRunning : m.photo_id # detLast.photo_id

C27_Witness ==
    /\ detLast # Null
    /\ detLast.fault = "save"
    /\ detLast.status = "success"
    /\ objectRows[detLast.photo_id] = <<>>
    /\ photos[detLast.photo_id].detected
    /\ detWrites[detLast.photo_id] = 1

\* the DetectedObject rows of a complete detection of photo p: one row for
\* every object of the result, in its order
ObjectRowsOf(p) ==
    LET objs == detect_objects(p, photos[p].file[1], "none").detected_objects
    IN  [i \in 1..Len(objs) |-> objs[i].name]

\* C28 as the specification words it: the update of the Photo row and the
\* insert of its DetectedObject rows are one transaction, so whenever the
\* row is seen with detected_at set the object rows of the detection are
\* there too.
C28_UpdateAndInsertAtomic ==
    \A p \in DOMAIN photos :
        photos[p].detected => objectRows[p] = ObjectRowsOf(p)

\* C28: the update of the Photo row is committed on its own, before the
\* object rows are inserted; the insert is one atomic batch.  So object rows
\* exist only for a row with detected_at set and they are whole batches of
\* a detection, never a part of one; a row with detected_at set can be
\* without them, while the unit is between the two steps or after a failed
\* insert.
C28_RowsAfterUpdateAllOrNothing ==
    \A p \in DOMAIN photos :
        \/ objectRows[p] = <<>>
        \/ LET batch == ObjectRowsOf(p) IN
           /\ photos[p].detected
           /\ batch # <<>>
           /\ Len(objectRows[p]) % Len(batch) = 0
           /\ \A i \in 1..Len(objectRows[p]) :
                  objectRows[p][i] = batch[((i - 1) % Len(batch)) + 1]

\* a unit has committed the update of a photo with objects and has not yet
\* inserted its object rows
C28_Witness ==
    \E t \in detRunning :
        /\ photos[t.photo_id].detected
        /\ Len(t.detected_objects) >= 2
        /\ objectRows[t.photo_id] = <<>>

\* C30: an attempt returns status success, and capture has set
\* last_connection_status to True, only if that capture created its Photo
\* row, with detected_at null, has_detected_objects False and all counters
\* zero.
C30_SuccessOnlyWithBlankRow ==
    \A c \in CameraIds :
        (capLast[c] # Null /\ capLast[c].status = "success") =>
            /\ capLast[c].photo
            /\ \E i \in DOMAIN photos :
                   /\ ~photos[i].detected
                   /\ ~photos[i].has_detected_objects
                   /\ photos[i].counts = ZeroCounts

\* C29: with scheduler runs and workers that keep going, every Photo row
\* whose image can be fetched and analysed eventually has detected_at set,
\* also when as many older rows as the limit of the query, or more, fail on
\* every attempt.
C29_FetchableEventuallyDetected ==
    <>(\A p \in DOMAIN photos :
          photos[p].file[1] \notin LostKeys => photos[p].detected)

\* C31: schedule_camera_captures returns as soon as the chord is submitted:
\* its result is there while units of the batch are still waiting, and it is
\* the number of camera ids of the fan-out whatever the units then return.
C31_SchedulerResultAtFanOut ==
    (schedResult # Null /\ fanout # {}) =>
        /\ schedResult.scheduled = Cardinality(fanout)
        /\ schedResult.error = ""
        /\ \A c \in CameraIds : capLast[c] # Null => c \in fanout

\* the scheduler has returned and no unit of a batch of two has run yet
C31_Witness ==
    /\ schedResult # Null
    /\ schedResult.scheduled = 2
    /\ Cardinality(capQueue) = 2
    /\ \A c \in CameraIds : capLast[c] = Null
    /\ report = Null

\* C32 as the specification words it: a run of either scheduler in which
\* the discovery query or a submission failed returns scheduled = 0 with
\* an error, or status error, and a failed query submits nothing.
C32_FailureIsReportedAsError ==
    /\ (schedResult # Null /\ (~schedIn.query_ok \/ ~schedIn.submit_ok)) =>
           /\ schedResult.scheduled = 0
           /\ schedResult.error # ""
    /\ (schedResult # Null /\ ~schedIn.query_ok) => capQueue = {}
    /\ (detSched # Null /\ (~detCalls.query_ok
                             \/ \E k \in 1..Len(detCalls.calls) : ~detCalls.calls[k].ok)) =>
           detSched.status = "error"
    /\ (detSched # Null /\ ~detCalls.query_ok) => detQueue = {}

\* C32: neither scheduler raises and each returns a dictionary.  The capture
\* scheduler returns scheduled = 0 with an error when its query or the
\* submission of the chord failed.  The detection scheduler returns status
\* success also then: a failed query counts as no undetected photos
\* (photos_scheduled 0) and a failed submission is only left out of
\* photos_scheduled.  A failed discovery query submits no units.
C32_SchedulersReturnStructured ==
    /\ schedResult # Null =>
           IF schedIn.query_ok /\ schedIn.submit_ok /\ activeCameras # {}
           THEN /\ schedResult.scheduled = Cardinality(activeCameras)
                /\ schedResult.error = ""
           ELSE /\ schedResult.scheduled = 0
                /\ schedResult.error # ""
                /\ capQueue = {}
                /\ fanout = {}
    /\ detSched # Null =>
           /\ detSched.status = "success"
           /\ detSched.photos_scheduled =
                  Cardinality({k \in 1..Len(detCalls.calls) : detCalls.calls[k].ok})
           /\ detSched.photos_scheduled = Cardinality(detQueue)
           /\ ~detCalls.query_ok =>
                  /\ detSched.photos_scheduled = 0
                  /\ detCalls.calls = <<>>
                  /\ detQueue = {}

\* both schedulers have run with a failing query although there were active
\* cameras and undetected photos
C32_Witness ==
    /\ schedResult # Null
    /\ ~schedIn.query_ok
    /\ activeCameras # {}
    /\ schedResult.scheduled = 0
    /\ detSched # Null
    /\ ~detCalls.query_ok
    /\ get_undetected_photos(photos, DetectLimit) # <<>>
    /\ detSched.status = "success"
    /\ detQueue = {}

\* the work of each pipeline, as the specification lists it
CaptureWork == {"tasks.schedule_camera_captures", "tasks.capture_single_camera",
                "tasks.summarize_capture_results"}
DetectionWork == {"tasks.schedule_photo_detection", "tasks.detect_single_photo"}
WorkOf(q) == IF q = "capture" THEN CaptureWork ELSE DetectionWork

OnlyOwnWork(q) == \A i \in 1..Len(broker[q]) : broker[q][i].task \in WorkOf(q)

TracedPending(tasks) ==
    \E q \in QueueNames : \E i \in 1..Len(broker[q]) :
        broker[q][i].traced /\ broker[q][i].task \in tasks

\* C33: capture work is only ever waiting on queue 'capture' and detection
\* work, retries included, only on queue 'detection'; and a message of one
\* pipeline that is waiting is taken and run by the pool of its queue whatever
\* the other pool does, also when the other queue is never empty because its
\* pool takes nothing
C33_QueuesDoNotStarveEachOther ==
    /\ [](\A q \in QueueNames : OnlyOwnWork(q))
    /\ \A q \in QueueNames :
          (q \in pools /\ TracedPending(WorkOf(q))) ~> ~Traced(broker)

\* the detection pool has run a unit three times (its message is at its last
\* retry) and run a traced message while the capture pool took nothing and
\* queue 'capture' is full
C33_Witness ==
    /\ pools = {"detection"}
    /\ Len(broker.capture) = QueueCap
    /\ OnlyOwnWork("capture")
    /\ ~Traced(broker)
    /\ broker.detection # <<>>
    /\ Head(broker.detection).task = "tasks.detect_single_photo"
    /\ Head(broker.detection).retries = DetectMaxRetries

\* the emitted object made of raw detection i, Null if there is none
EmittedAt(i) ==
    LET mine == {k \in 1..Len(clsOut.detected_objects) :
                    clsOut.detected_objects[k].original_name = clsIn[i].cls
                    /\ clsOut.detected_objects[k].confidence = clsIn[i].conf
                    /\ k = Cardinality({j \in 1..i : /\ clsIn[j].cls \in ConfiguredClasses
                                                     /\ clsIn[j].conf >= MIN_CONFIDENCE})}
    IN  IF mine = {} THEN Null ELSE clsOut.detected_objects[CHOOSE k \in mine : TRUE]

\* C34: a kept detection whose crop could not be stored (the upload answered
\* failure, or something raised) is still in the output, with no crop key,
\* and still counted; the classification returns its result
C34_CropFailureKeepsDetection ==
    clsOut # Null =>
        /\ \A i \in 1..Len(clsIn) :
              (clsIn[i].cls \in ConfiguredClasses /\ clsIn[i].conf >= MIN_CONFIDENCE) =>
                  /\ EmittedAt(i) # Null
                  /\ cropExc[i] # "none" => EmittedAt(i).s3_key = <<>>
                  /\ cropExc[i] = "none" => EmittedAt(i).s3_key # <<>>
        /\ CountTotal(clsOut.counts) =
              Cardinality({i \in 1..Len(clsIn) : /\ clsIn[i].cls \in ConfiguredClasses
                                                 /\ clsIn[i].conf >= MIN_CONFIDENCE})

\* two kept detections, the crop of the first not stored because the upload
\* answered failure, that of the second because something raised
C34_Witness ==
    /\ clsOut # Null
    /\ Len(clsIn) = 2
    /\ cropExc[1] = "failed" /\ cropExc[2] = "raised"
    /\ Len(clsOut.detected_objects) = 2
    /\ clsOut.detected_objects[1].s3_key = <<>>
    /\ clsOut.detected_objects[2].s3_key = <<>>
    /\ CountTotal(clsOut.counts) = 2

\* the raw detection list in another order
Reordered(boxes, f) == SubSeq([i \in 1..Len(boxes) |-> boxes[f[i]]], 1, Len(boxes))

CropKeys(out) == {out.detected_objects[k].s3_key : k \in 1..Len(out.detected_objects)}

\* C35: the eight counters, has_detected_objects and the set of canonical
\* classes seen are the same for every order of the same raw detections
C35_OrderDoesNotChangeCounts ==
    clsOut # Null =>
        \A f \in Perms(Len(clsIn)) :
            LET other == Classify(1, Reordered(clsIn, f)) IN
            /\ other.counts = clsOut.counts
            /\ other.has_detected_objects = clsOut.has_detected_objects
            /\ other.classes_detected = clsOut.classes_detected

\* a car above and a dog below the system confidence, classified in that
\* order; in the other order the counters are the same and the crop keys differ
C35_Witness ==
    /\ clsOut # Null
    /\ sysConf = 85
    /\ clsIn = <<[cls |-> "car", conf |-> 85], [cls |-> "dog", conf |-> MIN_CONFIDENCE]>>
    /\ clsOut.counts.car_above = 1 /\ clsOut.counts.deer_below = 1
    /\ LET other == Classify(1, <<clsIn[2], clsIn[1]>>) IN
          /\ other.counts = clsOut.counts
          /\ CropKeys(other) # CropKeys(clsOut)

\* what a classification kept, without the crop keys (which number the boxes
\* of the list that was classified)
KeptOf(out) ==
    [k \in 1..Len(out.detected_objects) |->
        [original_name |-> out.detected_objects[k].original_name,
         confidence |-> out.detected_objects[k].confidence]]

\* C36: the confidence floor of the inference call is strictly below the
\* min_confidence of every rule, so classifying the boxes the call returns
\* keeps exactly what classifying every proposed box would keep
C36_FloorRemovesNothingKept ==
    /\ \A cls \in DOMAIN CLASS_CONFIG : PredictConf < CLASS_CONFIG[cls].min_confidence
    /\ clsOut # Null =>
          LET floored == Classify(1, predict_boxes(clsIn, PredictConf)) IN
          /\ KeptOf(floored) = KeptOf(clsOut)
          /\ floored.counts = clsOut.counts

\* a box exactly at min_confidence is kept, one a point lower passes the floor
\* and is dropped by its rule
C36_Witness ==
    /\ clsOut # Null
    /\ clsIn = <<[cls |-> "car", conf |-> MIN_CONFIDENCE], [cls |-> "bus", conf |-> MIN_CONFIDENCE - 1]>>
    /\ Len(predict_boxes(clsIn, PredictConf)) = 2
    /\ Len(clsOut.detected_objects) = 1
    /\ clsOut.detected_objects[1].confidence = MIN_CONFIDENCE

\* C37: on every image row that a unit has written, the eight counters sum
\* to the number of objects the classification of its image emitted, and
\* has_detected_objects says whether that number is above zero; a unit that
\* is past the update holds exactly that many objects
C37_RowCountersSumToEmitted ==
    /\ \A p \in DOMAIN photos :
          photos[p].detected =>
              LET emitted == detect_objects(p, photos[p].file[1], "none").detected_objects IN
              /\ CountTotal(photos[p].counts) = Len(emitted)
              /\ photos[p].has_detected_objects <=> Len(emitted) > 0
    /\ \A t \in detRunning :
          /\ CountTotal(photos[t.photo_id].counts) = Len(t.detected_objects)
          /\ photos[t.photo_id].has_detected_objects <=> Len(t.detected_objects) > 0

\* the row of an image with a car and a dog, after its unit finished: two
\* objects, two in the counters, the flag set
C37_Witness ==
    /\ detRunning = {}
    /\ detLast # Null
    /\ photos[1].detected
    /\ photos[1].file = <<1>>
    /\ CountTotal(photos[1].counts) = 2
    /\ photos[1].counts.car_above = 1 /\ photos[1].counts.deer_above = 1
    /\ photos[1].has_detected_objects
    /\ Len(objectRows[1]) = 2

BelowTotal(counts) ==
    counts.car_below + counts.truck_below + counts.person_below + counts.deer_below

\* C38: with min_confidence 0.80 in every rule and the system confidence at
\* its default 0.5, every kept detection counts as above: the four _below
\* counters of every image row are zero, as are those of every result a unit
\* has returned
C38_NothingBelowAtDefault ==
    sysConf = YOLO_SYSTEM_CONFIDENCE =>
        /\ \A p \in DOMAIN photos : BelowTotal(photos[p].counts) = 0
        /\ \A p \in DOMAIN photos :
              photos[p].detected =>
                  \A k \in 1..Len(detect_objects(p, photos[p].file[1], "none").detected_objects) :
                      detect_objects(p, photos[p].file[1], "none").detected_objects[k]
                          .is_above_system_confidence

\* the row of the image with a car at 0.85 and a dog at 0.90 after its unit:
\* both counted above, nothing below
C38_Witness ==
    /\ sysConf = YOLO_SYSTEM_CONFIDENCE
    /\ photos[1].detected
    /\ photos[1].counts.car_above = 1
    /\ photos[1].counts.deer_above = 1
    /\ BelowTotal(photos[1].counts) = 0
    /\ detWrites[1] >= 1

====
